---- MODULE Spec2Model ----
(***************************************************************************)
(* Model of the ace_it attribute macro (src/src/lib.rs).                   *)
(*                                                                         *)
(* ace_it_impl takes a parsed enum (syn::ItemEnum) and returns a token     *)
(* stream: either the enum followed by one `impl From<..>` per tuple       *)
(* variant, or a single compile_error carrying a fixed message.            *)
(*                                                                         *)
(* A token stream is modelled as a sequence of items (the enum item, impl  *)
(* items, a compile_error item).  The token stream of a variant's field    *)
(* list (syn's Punctuated<Field, Comma>) is modelled token by token: the   *)
(* types, the commas between them and a trailing comma when the source     *)
(* has one.  Types are atomic identifiers 1..NumTypes.                     *)
(***************************************************************************)
EXTENDS Integers, Sequences, FiniteSets, TLC

\* ---------------------------------------------------------------- bounds
MaxVariants == 3
MaxFields == 2
NumTypes == 2

\* ------------------------------------------------------------- constants
Comma == 0
Space == -1
None == 0
Message == "Duplicate variant type, can't auto-generate From impls"

Types == 1..NumTypes
EnumNames == {"Test", "Error"}
VariantIdents == <<"A", "B", "C", "D", "E", "F", "G", "H">>

\* ------------------------------------------------------- the parsed input
\* Field lists of a tuple variant: 0..MaxFields types.
FieldLists == UNION {[1..n -> Types] : n \in 0..MaxFields}

\* syn::Fields: Unit `A`, Named `A { a: T }`, Unnamed `A(T, ..)`.  The
\* parser keeps a trailing comma of a non-empty tuple field list.
UnitShape == [kind : {"Unit"}, fields : {<<>>}, trailing : {FALSE}]
NamedShape == [kind : {"Named"}, fields : [1..1 -> Types], trailing : {FALSE}]
UnnamedShape ==
    {s \in [kind : {"Unnamed"}, fields : FieldLists, trailing : BOOLEAN] :
        s.trailing => Len(s.fields) >= 1}
Shapes == UnitShape \cup NamedShape \cup UnnamedShape

\* syn::Variant: the i-th declared variant carries the i-th identifier
\* (variant names of one enum are distinct) and its span is its position.
MkVariant(i, s) ==
    [ident |-> VariantIdents[i], span |-> i,
     kind |-> s.kind, fields |-> s.fields, trailing |-> s.trailing]

\* syn::ItemEnum: a name and the ordered variants.
ShapeLists == UNION {[1..n -> Shapes] : n \in 0..MaxVariants}
ItemEnums ==
    {[ident |-> e, variants |-> [i \in 1..Len(ss) |-> MkVariant(i, ss[i])]] :
        e \in EnumNames, ss \in ShapeLists}

\* ---------------------------------------------------------- token streams
\* Punctuated::to_tokens: every field followed by its comma; the last field
\* is followed by a comma only when the source has a trailing one.
RECURSIVE Pairs(_, _, _)
Pairs(fields, trailing, i) ==
    IF i > Len(fields) THEN <<>>
    ELSE IF i < Len(fields) \/ trailing
         THEN <<fields[i], Comma>> \o Pairs(fields, trailing, i + 1)
         ELSE <<fields[i]>>

UnnamedTokens(variant) == Pairs(variant.fields, variant.trailing, 1)

\* TokenStream::to_string: the tokens separated by single spaces.
RECURSIVE TokensToString(_)
TokensToString(ts) ==
    IF Len(ts) = 0 THEN <<>>
    ELSE IF Len(ts) = 1 THEN <<ts[1]>>
    ELSE <<ts[1], Space>> \o TokensToString(Tail(ts))

\* parsed.to_token_stream(): the enum item, verbatim.
EnumItem(en) == [item |-> "enum", ident |-> en.ident, variants |-> en.variants]

\* quote! { impl From<#types> for #enum_name { fn from(value: #types) -> Self
\*          { Self::#variant_name(value) } } }
ImplItem(types, enum_name, variant_name) ==
    [item |-> "impl", from_ty |-> types, for_ty |-> enum_name,
     arg_ty |-> types, variant_name |-> variant_name]

\* syn::Error::new(span, msg).to_compile_error()
CompileError(sp, msg) == [item |-> "compile_error", span |-> sp, msg |-> msg]

\* Vec::push of process_variants.
PushFront(vec, imp) == <<imp>> \o vec
Push(vec, imp) == Append(vec, imp)

\* impls.to_tokens(&mut enum_def): append the impl's tokens to the stream.
PrependTokens(stream, imp) == <<imp>> \o stream
ToTokens(stream, imp) == Append(stream, imp)

\* if let Fields::Unnamed(fields) = &variant.fields
IsUnnamed(variant) == variant.kind = "Unnamed"

\* ------------------------------------------------------------------ state
VARIABLES
    parsed,      \* the syn::ItemEnum handed to ace_it_impl
    pc,          \* position inside ace_it_impl
    enum_def,    \* the token stream under construction
    types_map,   \* HashSet of find_duplicate_variant_type
    gi,          \* iterator position of find_duplicate_variant_type
    dup,         \* its Option<Span> result (None or a span)
    from_impls,  \* Vec of process_variants
    si,          \* iterator position of process_variants
    ei,          \* iterator position of the final for loop
    result       \* the returned token stream (<<>> until returned)

vars == <<parsed, pc, enum_def, types_map, gi, dup, from_impls, si, ei, result>>

Variants == parsed.variants
NVariants == Len(parsed.variants)

Init ==
    /\ parsed \in ItemEnums
    /\ pc = "start"
    /\ enum_def = <<>>
    /\ types_map = {}
    /\ gi = 1
    /\ dup = None
    /\ from_impls = <<>>
    /\ si = 1
    /\ ei = 1
    /\ result = <<>>

\* let mut enum_def = parsed.to_token_stream();
ace_it_impl_start ==
    /\ pc = "start"
    /\ enum_def' = <<EnumItem(parsed)>>
    /\ pc' = "guard"
    /\ UNCHANGED <<parsed, types_map, gi, dup, from_impls, si, ei, result>>

\* One iteration of the loop of find_duplicate_variant_type.
find_duplicate_variant_type_step ==
    /\ pc = "guard"
    /\ gi <= NVariants
    /\ LET variant == Variants[gi]
           types == TokensToString(UnnamedTokens(variant))
       IN IF IsUnnamed(variant)
          THEN IF types \in types_map
               THEN /\ dup' = variant.span
                    /\ pc' = "reject"
                    /\ UNCHANGED <<types_map, gi>>
               ELSE /\ types_map' = types_map \cup {types}
                    /\ gi' = gi + 1
                    /\ UNCHANGED <<dup, pc>>
          ELSE /\ gi' = gi + 1
               /\ UNCHANGED <<types_map, dup, pc>>
    /\ UNCHANGED <<parsed, enum_def, from_impls, si, ei, result>>

\* The iterator is exhausted: find_duplicate_variant_type returns None.
find_duplicate_variant_type_none ==
    /\ pc = "guard"
    /\ gi > NVariants
    /\ dup' = None
    /\ pc' = "scan"
    /\ UNCHANGED <<parsed, enum_def, types_map, gi, from_impls, si, ei, result>>

\* if let Some(var) = .. { return syn::Error::new(var, ..).to_compile_error(); }
ace_it_impl_reject ==
    /\ pc = "reject"
    /\ result' = <<CompileError(dup, Message)>>
    /\ pc' = "done"
    /\ UNCHANGED <<parsed, enum_def, types_map, gi, dup, from_impls, si, ei>>

\* One iteration of the loop of process_variants.
process_variants_step ==
    /\ pc = "scan"
    /\ si <= NVariants
    /\ LET variant == Variants[si]
           imp == ImplItem(UnnamedTokens(variant), parsed.ident, variant.ident)
       IN from_impls' = IF IsUnnamed(variant) THEN Push(from_impls, imp)
                        ELSE from_impls
    /\ si' = si + 1
    /\ UNCHANGED <<parsed, pc, enum_def, types_map, gi, dup, ei, result>>

\* process_variants returns from_impls.
process_variants_return ==
    /\ pc = "scan"
    /\ si > NVariants
    /\ pc' = "emit"
    /\ UNCHANGED <<parsed, enum_def, types_map, gi, dup, from_impls, si, ei, result>>

\* for impls in for_impls { impls.to_tokens(&mut enum_def); }
ace_it_impl_append ==
    /\ pc = "emit"
    /\ ei <= Len(from_impls)
    /\ enum_def' = ToTokens(enum_def, from_impls[ei])
    /\ ei' = ei + 1
    /\ UNCHANGED <<parsed, pc, types_map, gi, dup, from_impls, si, result>>

\* The final expression of ace_it_impl: enum_def.
ace_it_impl_accept ==
    /\ pc = "emit"
    /\ ei > Len(from_impls)
    /\ result' = enum_def
    /\ pc' = "done"
    /\ UNCHANGED <<parsed, enum_def, types_map, gi, dup, from_impls, si, ei>>

Next ==
    \/ ace_it_impl_start
    \/ find_duplicate_variant_type_step
    \/ find_duplicate_variant_type_none
    \/ ace_it_impl_reject
    \/ process_variants_step
    \/ process_variants_return
    \/ ace_it_impl_append
    \/ ace_it_impl_accept

Spec == Init /\ [][Next]_vars

\* =================================================================
\* Vocabulary of the properties
\* =================================================================
\* A variant with exactly one unnamed payload, and that payload's type.
Qualifying(variant) == variant.kind = "Unnamed" /\ Len(variant.fields) = 1
PayloadType(variant) == variant.fields[1]
QualifyingIdx == {i \in 1..NVariants : Qualifying(Variants[i])}

\* Two qualifying variants share a payload type expression.
QualifyingCollide(i, j) ==
    /\ i \in QualifyingIdx
    /\ j \in QualifyingIdx
    /\ i < j
    /\ PayloadType(Variants[i]) = PayloadType(Variants[j])
HasDuplicatePayloadType == \E i, j \in 1..NVariants : QualifyingCollide(i, j)

\* The terminal outcomes.
IsReject == pc = "done" /\ Len(result) = 1 /\ result[1].item = "compile_error"
IsAccept == pc = "done" /\ ~IsReject
GuardReturned == pc \notin {"start", "guard"}

\* The conversions of the returned stream, in stream order.
IsImpl(it) == it.item = "impl"
Convs == SelectSeq(result, IsImpl)
ConvPositions == {k \in 1..Len(result) : IsImpl(result[k])}

\* The declaration position of a variant name, and the variant itself.
DeclIndex(name) == CHOOSE i \in 1..NVariants : Variants[i].ident = name
SourceVariant(conv) == Variants[DeclIndex(conv.variant_name)]

\* The types a conversion converts from: its `From<..>` tokens without the
\* separators.
NotComma(t) == t # Comma
TypeList(ts) == SelectSeq(ts, NotComma)

\* The guard's comparison as the code makes it: two tuple variants whose
\* field-list token strings are equal.
FieldString(variant) == TokensToString(UnnamedTokens(variant))
HasTokenDuplicate ==
    \E i, j \in 1..NVariants :
        /\ i < j
        /\ IsUnnamed(Variants[i])
        /\ IsUnnamed(Variants[j])
        /\ FieldString(Variants[i]) = FieldString(Variants[j])

\* =================================================================
\* Claims
\* =================================================================

\* C1: when the N variants with exactly one unnamed payload have pairwise
\* distinct payload types, the output is accepted and holds exactly N
\* conversions, one per such variant, each from that variant's payload type
\* to that variant's name in the enum's name.
C1_Totality ==
    (pc = "done" /\ ~HasDuplicatePayloadType) =>
        /\ IsAccept
        /\ Len(Convs) = Cardinality(QualifyingIdx)
        /\ \A i \in QualifyingIdx :
              \E k \in 1..Len(Convs) :
                  /\ Convs[k].variant_name = Variants[i].ident
                  /\ TypeList(Convs[k].from_ty) = <<PayloadType(Variants[i])>>
                  /\ Convs[k].for_ty = parsed.ident

\* C2: when two variants with exactly one unnamed payload share a payload
\* type expression, the output is exactly one diagnostic with the fixed
\* message: no declaration and no conversion.
C2_DuplicateRejected ==
    (pc = "done" /\ HasDuplicatePayloadType) =>
        /\ IsReject
        /\ result[1].msg = Message

\* C3: the guard returns the first variant, in declaration order, whose
\* single payload type equals that of an earlier variant with a single
\* payload, and none exactly when those payload types are pairwise distinct.
FirstConflict ==
    IF HasDuplicatePayloadType
    THEN CHOOSE j \in 1..NVariants :
            /\ \E i \in 1..NVariants : QualifyingCollide(i, j)
            /\ \A j2 \in 1..NVariants :
                  (\E i \in 1..NVariants : QualifyingCollide(i, j2)) => j <= j2
    ELSE None
C3_FirstDuplicateReported ==
    GuardReturned => dup = FirstConflict

\* C4: no conversion has a variant with more than one unnamed payload as its
\* source, and the scanner yields a pair only for variants with exactly one
\* unnamed payload.
C4_MultiPayloadUntouched ==
    /\ pc = "done" =>
          \A k \in ConvPositions : Len(SourceVariant(result[k]).fields) <= 1
    /\ \A k \in 1..Len(from_impls) : Qualifying(SourceVariant(from_impls[k]))

\* C5: the guard never reports a variant without exactly one unnamed payload
\* and never reports a variant because of one: a reported variant has exactly
\* one unnamed payload whose type an earlier such variant already has, so an
\* enum without such a pair is accepted.
C5_GuardSkipsNonQualifying ==
    /\ GuardReturned /\ dup # None =>
          \E i \in 1..NVariants : QualifyingCollide(i, dup)
    /\ pc = "done" /\ ~HasDuplicatePayloadType => IsAccept

\* C6: a variant with named fields or with no fields is never the source of
\* a conversion.
C6_NamedAndEmptyNeverConverted ==
    pc = "done" =>
        \A k \in ConvPositions :
            /\ SourceVariant(result[k]).kind # "Named"
            /\ Len(SourceVariant(result[k]).fields) # 0

\* C7: when no variant has exactly one unnamed payload, the output is the
\* input declaration alone.
C7_PassThrough ==
    (pc = "done" /\ QualifyingIdx = {}) => result = <<EnumItem(parsed)>>

\* C8: in an accepted output the conversions are in the declaration order of
\* their source variants.
C8_OrderPreserved ==
    IsAccept =>
        \A p, q \in ConvPositions :
            DeclIndex(result[p].variant_name) < DeclIndex(result[q].variant_name)
                => p < q
C8_Witness ==
    /\ IsAccept
    /\ Cardinality(ConvPositions) >= 2

\* C9: the outcome is Reject exactly when the guard found a duplicate and
\* Accept exactly when it found none; an accepted output starts with the
\* unaltered declaration and everything after it is a conversion.
C9_TwoOutcomes ==
    pc = "done" =>
        /\ IsReject <=> dup # None
        /\ IsReject <=> HasTokenDuplicate
        /\ IsReject => result = <<CompileError(dup, Message)>>
        /\ IsAccept =>
              /\ Len(result) >= 1
              /\ result[1] = EnumItem(parsed)
              /\ \A k \in 2..Len(result) : IsImpl(result[k])
C9_Witness ==
    /\ IsAccept
    /\ Len(result) >= 3
    /\ \E i \in 1..NVariants : ~IsUnnamed(Variants[i])

\* C10: in an accepted output no two conversions convert from the same type
\* expression, and every converted variant was inserted into the guard's set.
C10_DistinctSources ==
    IsAccept =>
        /\ \A p, q \in ConvPositions :
              p # q => TypeList(result[p].from_ty) # TypeList(result[q].from_ty)
        /\ \A k \in ConvPositions :
              TokensToString(result[k].from_ty) \in types_map

====
